---- MODULE Spec2Model ----
(***************************************************************************)
(* A model of ExcelDataTransformer.py: the marker-based table extraction   *)
(* (_load_excel), the format detector (detect_file_format) and the         *)
(* read-merge-write of the structured document (update_output_file).       *)
(*                                                                         *)
(* Text is a sequence of one-character strings.  A Python exception is a   *)
(* result record naming the error; nothing is written after it.            *)
(***************************************************************************)
EXTENDS Integers, Sequences, FiniteSets, TLC

VARIABLES
    text,            \* detect_file_format: the content of the file it is given
    detected,        \* detect_file_format: "pending", or what the call gave
    df,              \* _load_excel: the sheet pd.read_excel returned
    header_keyword,  \* ExcelDataTransformer.header_keyword
    start_table,     \* ExcelDataTransformer.start_table
    end_table,       \* ExcelDataTransformer.end_table
    self_df,         \* ExcelDataTransformer.df
    load_result,     \* _load_excel: "pending", or what the call gave
    output_file,     \* the file at the path update_output_file is given
    data_structure,  \* ExcelDataTransformer.data_structure
    last,            \* the latest update_output_file call: arguments, file before, outcome
    history,         \* whether the target did not exist at first, and what was merged since
    proc             \* two concurrent update_output_file calls: position and locals

vars == <<text, detected, df, header_keyword, start_table, end_table, self_df,
          load_result, output_file, data_structure, last, history, proc>>

detectVars == <<text, detected>>
excelVars  == <<df, header_keyword, start_table, end_table, self_df, load_result>>
mergeVars  == <<output_file, data_structure, last, history>>

(***************************************************************************)
(* Text                                                                    *)
(***************************************************************************)

\* Longest file content given to detect_file_format.
MaxLen == 4

Alphabet == {"{", "-", ",", "s", "e", "E", "p", "=", " ", "\n"}

Texts == UNION {[1..n -> Alphabet] : n \in 0..MaxLen}

Min(S) == CHOOSE x \in S : \A y \in S : x <= y

\* f.readline(): up to and including the first line terminator.
readline(t) ==
    LET nl == {i \in 1..Len(t) : t[i] = "\n"}
    IN  IF nl = {} THEN t ELSE SubSeq(t, 1, Min(nl))

IsSpace(c) == c \in {" ", "\n"}

\* str.strip(): leading and trailing whitespace removed.
strip(s) ==
    LET ink == {i \in 1..Len(s) : ~IsSpace(s[i])}
    IN  IF ink = {} THEN <<>>
        ELSE SubSeq(s, Min(ink), CHOOSE j \in ink : \A k \in ink : k <= j)

\* str.startswith(prefix)
startswith(s, prefix) ==
    /\ Len(prefix) <= Len(s)
    /\ SubSeq(s, 1, Len(prefix)) = prefix

\* ',' in s
contains(s, c) == \E i \in 1..Len(s) : s[i] = c

LowerChar(c) == IF c = "E" THEN "e" ELSE c

\* str.lower()
lower(s) == [i \in 1..Len(s) |-> LowerChar(s[i])]

(***************************************************************************)
(* detect_file_format                                                      *)
(***************************************************************************)

\* The tests of detect_file_format on the stripped first line, with the CSV test
\* moved ahead of the YAML one.
DetectCsvBeforeYaml(first_line) ==
    IF first_line = <<>> THEN "EmptyOrCorruptFile"
    ELSE IF startswith(first_line, <<"{">>) THEN "json"
    ELSE IF contains(first_line, ",") \/ startswith(lower(first_line), <<"s", "e", "p", "=">>)
         THEN "csv"
    ELSE IF startswith(first_line, <<"-", "-", "-">>) THEN "yaml"
    ELSE "UnknownFormat"

\* Lines 106-116: the tests on the stripped first line, in the code's order.
DetectFirstLine(first_line) ==
    IF first_line = <<>> THEN "EmptyOrCorruptFile"
    ELSE IF startswith(first_line, <<"{">>) THEN "json"
    ELSE IF startswith(first_line, <<"-", "-", "-">>) THEN "yaml"
    ELSE IF contains(first_line, ",") \/ startswith(lower(first_line), <<"s", "e", "p", "=">>)
         THEN "csv"
    ELSE "UnknownFormat"

\* detect_file_format(file_path) on a file holding t.
detect_file_format(t) == DetectFirstLine(strip(readline(t)))

Formats == {"json", "yaml", "csv"}
DetectErrors == {"EmptyOrCorruptFile", "UnknownFormat"}

DetectCall ==
    /\ detected = "pending"
    /\ detected' = detect_file_format(text)
    /\ UNCHANGED <<text, excelVars, mergeVars, proc>>

(***************************************************************************)
(* ExcelDataTransformer._load_excel                                        *)
(***************************************************************************)

\* Most rows of a sheet.
MaxRows == 4

NaN == "NaN"

\* A row is <<column-0 cell, column-1 cell>>.
Cells0 == {"H", "a"}
Cells1 == {"H", "x"}
Rows == Cells0 \X Cells1

\* What pd.read_excel gives: unreadable (it raised), or a frame whose first column
\* is named by a string (a text header cell) or not (a numeric header cell).
Sheets ==
    {[readable |-> FALSE, label0 |-> "str", rows |-> <<>>]} \cup
    {[readable |-> TRUE, label0 |-> l, rows |-> r] :
        l \in {"str", "int"}, r \in UNION {[1..n -> Rows] : n \in 0..MaxRows}}

\* An optional integer: end_table = None is [set |-> FALSE, v |-> 0].
None == [set |-> FALSE, v |-> 0]
Some(n) == [set |-> TRUE, v |-> n]

StartValues == {-1, 0, 1}
EndValues == {None, Some(-1), Some(1), Some(2)}

\* self.df = None
NoFrame == [set |-> FALSE, rows |-> <<>>]
Frame(r) == [set |-> TRUE, rows |-> r]

\* The marker test applied to column 1 instead of column 0.
ProcessRowsColumn1(d, kw) ==
    LET IsMarker(i) == d.rows[i + 1][2] = kw
    IN  SelectSeq([i \in 1..Len(d.rows) |-> i - 1], IsMarker)

\* Line 59: the 0-based positions of the rows whose column-0 value equals the
\* keyword, ascending.
process_rows(d, kw) ==
    LET IsMarker(i) == d.rows[i + 1][1] = kw
    IN  SelectSeq([i \in 1..Len(d.rows) |-> i - 1], IsMarker)

\* Line 67: .assign(**{df.columns[0]: df.iloc[marker]}) gives column 0 the marker
\* row as a Series indexed by the column names; the segment is indexed 0..n-1, the
\* two share no label, and every cell of column 0 becomes NaN.
AssignColumn0(row) == <<NaN, row[2]>>

\* Lines 64-66 with the segment starting at the marker row itself.
SegmentFromMarker(d, pr, i) ==
    LET lo == pr[i]
        hi == IF i + 1 <= Len(pr) THEN pr[i + 1] ELSE Len(d.rows)
    IN  [j \in 1..(hi - lo) |-> AssignColumn0(d.rows[lo + j])]

\* Lines 64-67: df.iloc[process_rows[i] + 1 : next marker or len(df)], re-indexed,
\* for the i-th marker (i is 1-based here, pr holds 0-based positions).
Segment(d, pr, i) ==
    LET lo == pr[i] + 1
        hi == IF i + 1 <= Len(pr) THEN pr[i + 1] ELSE Len(d.rows)
    IN  [j \in 1..(hi - lo) |-> AssignColumn0(d.rows[lo + j])]

\* Lines 63-69
Tables(d, pr) == [i \in 1..Len(pr) |-> Segment(d, pr, i)]

RECURSIVE concat(_)
\* pd.concat(tables, ignore_index=True)
concat(ts) == IF ts = <<>> THEN <<>> ELSE Head(ts) \o concat(Tail(ts))

\* A slice bound of a sequence of n rows: negative counts from the end, and both
\* ends are clipped.
ClipIndex(i, n) ==
    IF i < 0 THEN (IF i + n < 0 THEN 0 ELSE i + n)
    ELSE (IF i > n THEN n ELSE i)

\* .iloc[start:end]
iloc(r, st, en) ==
    LET lo == ClipIndex(st, Len(r))
        hi == IF en.set THEN ClipIndex(en.v, Len(r)) ELSE Len(r)
    IN  IF lo < hi THEN SubSeq(r, lo + 1, hi) ELSE <<>>

Raised(e) == [ret |-> "raised", err |-> e, tables |-> <<>>, df |-> NoFrame]

\* Lines 52-72.  A first column that is not named by a string makes the keyword
\* call of line 67 raise TypeError (keywords must be strings).
load_excel(d, kw, st, en) ==
    IF ~d.readable THEN Raised("LoadError")
    ELSE LET pr == process_rows(d, kw)
         IN  IF pr = <<>> THEN Raised("NoMarkersFound")
             ELSE IF d.label0 # "str" THEN Raised("TypeError")
             ELSE [ret |-> "returned", err |-> "", tables |-> Tables(d, pr),
                   df |-> Frame(iloc(concat(Tables(d, pr)), st, en))]

Pending == [ret |-> "pending", err |-> "", tables |-> <<>>, df |-> NoFrame]

LoadExcel ==
    /\ load_result = Pending
    /\ LET r == load_excel(df, header_keyword, start_table, end_table)
       IN  /\ load_result' = r
           /\ self_df' = IF r.ret = "returned" THEN r.df ELSE self_df
    /\ UNCHANGED <<df, header_keyword, start_table, end_table, detectVars, mergeVars, proc>>


(***************************************************************************)
(* The structured document and the file that holds it                      *)
(***************************************************************************)

\* Most data groups a document holds.
MaxGroups == 2

GroupNames == <<"G1", "G2", "G3", "G4">>
Groups == {GroupNames[i] : i \in 1..MaxGroups}
Categories == {"C1", "C2"}

\* A table json and yaml can both write (a list of row mappings).
Records == {"t1", "t2"}
\* The tables of the documents found at the path.
StoredRecords == {"t1"}
\* What main passes as data: the pandas DataFrame filter_data returned.
DataFrame == "DataFrame"
Data == Records \cup {DataFrame}

\* Top-level keys a document may hold beside the root key.
RootName == "root"
OtherKey == "a,b"
TopKeys == {OtherKey, RootName}

\* The characters of a key as yaml.dump writes it (a plain scalar).
KeyText(k) == IF k = OtherKey THEN <<"a", ",", "b">> ELSE <<"r", "o", "o", "t">>
\* Python's string order: "a,b" < "root".
KeyRank(k) == IF k = OtherKey THEN 1 ELSE 2

\* A value of a mapping: a nested mapping, or anything else (a string, a list).
EmptyMap == [k \in {} |-> k]
Scalar == [kind |-> "scalar", map |-> EmptyMap]
Map(m) == [kind |-> "map", map |-> m]
\* What a document that is no mapping decodes to (None, a list).
NoMapping == [kind |-> "none", map |-> EmptyMap]

\* dict[k] = v
MapSet(m, k, v) == [x \in (DOMAIN m) \cup {k} |-> IF x = k THEN v ELSE m[x]]

PartialMaps(K, V) == UNION {[D -> V] : D \in SUBSET K}

GroupValues == {Scalar} \cup {Map(m) : m \in PartialMaps(Categories, StoredRecords)}
RootValues == {Scalar} \cup {Map(m) : m \in PartialMaps(Groups, GroupValues)}
Documents ==
    {Map(m) : m \in PartialMaps({RootName}, RootValues)} \cup
    {Map(MapSet(m, OtherKey, Scalar)) : m \in PartialMaps({RootName}, RootValues)}

\* Whether a document holds a DataFrame at some leaf.
HasFrame(c) ==
    /\ c.kind = "map"
    /\ \E k \in DOMAIN c.map : c.map[k].kind = "map" /\
         \E g \in DOMAIN c.map[k].map : c.map[k].map[g].kind = "map" /\
           \E x \in DOMAIN c.map[k].map[g].map : c.map[k].map[g].map[x] = DataFrame

\* A file: its first line, what its whole text is ("json", "yaml", or "text" that
\* neither decoder accepts), and the document the text encodes.
Absent == [exists |-> FALSE, first |-> <<>>, enc |-> "none", doc |-> NoMapping]
File(first, enc, doc) == [exists |-> TRUE, first |-> first, enc |-> enc, doc |-> doc]

\* open(output_file, 'w') before anything is written.
Truncated == File(<<>>, "text", NoMapping)

\* The first line yaml.dump(content, default_flow_style=False) writes: no '---',
\* the keys sorted, the first key and a colon, then the value when it is no
\* non-empty mapping.
YamlFirstLine(c) ==
    LET k == CHOOSE x \in DOMAIN c.map : \A y \in DOMAIN c.map : KeyRank(x) <= KeyRank(y)
        v == c.map[k]
    IN  KeyText(k) \o <<":">> \o
        (IF v.kind = "scalar" THEN <<" ", "v">>
         ELSE IF DOMAIN v.map = {} THEN <<" ", "{", "}">>
         ELSE <<>>)

\* The first line json.dump(content, f, indent=2) writes for a non-empty mapping.
JsonFirstLine == <<"{">>

\* The files update_output_file can find at its path.
ExistingFiles ==
    {File(JsonFirstLine, "json", d) : d \in Documents} \cup
    {File(<<"-", "-", "-">>, "yaml", d) : d \in Documents \cup {NoMapping}} \cup
    {File(YamlFirstLine(d), "yaml", d) : d \in {x \in Documents : DOMAIN x.map # {}}} \cup
    {File(<<"{">>, "text", NoMapping),
     File(<<"a", ",", "b", "\n">>, "text", NoMapping),
     File(<<"s", "E", "p", "=", ";", "\n">>, "text", NoMapping),
     File(<<"\n">>, "text", NoMapping),
     File(<<"?", "?", "?">>, "text", NoMapping),
     Truncated}

\* ExcelDataTransformer.data_structure: line 21 and line 35 leave
\* {'DATA_GROUP_COLLECTION': {}} (main passes no data_structure); configure accepts
\* any value, here a mapping to the root key's name and the bare name.
DefaultStructure == [type |-> "dict", entry |-> "{}"]
NamedStructure == [type |-> "dict", entry |-> RootName]
StringStructure == [type |-> "str", entry |-> RootName]
Structures == {DefaultStructure, NamedStructure, StringStructure}


(***************************************************************************)
(* update_output_file                                                      *)
(***************************************************************************)

Failed == [ok |-> FALSE, content |-> NoMapping]
Loaded(c) == [ok |-> TRUE, content |-> c]

\* Lines 133-134: json.loads(f.read()) or yaml.safe_load(f).  safe_load rejects
\* the python/object tags a dumped DataFrame is written with.
load(f, fmt) ==
    IF fmt = "json"
    THEN (IF f.enc = "json" THEN Loaded(f.doc) ELSE Failed)
    ELSE (IF f.enc = "yaml" /\ ~HasFrame(f.doc) THEN Loaded(f.doc) ELSE Failed)

\* Lines 136-137 with the group's mapping replaced instead of looked up: the
\* categories already under the group are dropped.
MergeReplacingGroup(content, ds, data_group, category, data) ==
    IF ds.type # "dict" \/ ds.entry = "{}" \/ content.kind # "map" THEN Failed
    ELSE LET root == ds.entry
             rv == IF root \in DOMAIN content.map THEN content.map[root] ELSE Map(EmptyMap)
         IN  IF rv.kind # "map" THEN Failed
             ELSE Loaded(Map(MapSet(content.map, root,
                     Map(MapSet(rv.map, data_group, Map(MapSet(EmptyMap, category, data)))))))

\* Lines 136-137:
\*   content.setdefault(parser.data_structure['DATA_GROUP_COLLECTION'], {})
\*          .setdefault(data_group, {})[category] = data
\* Subscripting a str data_structure, an unhashable key ({}), a content or a value
\* on the way that is no mapping: each raises, and line 139 re-raises.
merge(content, ds, data_group, category, data) ==
    IF ds.type # "dict" \/ ds.entry = "{}" \/ content.kind # "map" THEN Failed
    ELSE LET root == ds.entry
             rv == IF root \in DOMAIN content.map THEN content.map[root] ELSE Map(EmptyMap)
         IN  IF rv.kind # "map" THEN Failed
             ELSE LET gv == IF data_group \in DOMAIN rv.map THEN rv.map[data_group]
                            ELSE Map(EmptyMap)
                  IN  IF gv.kind # "map" THEN Failed
                      ELSE Loaded(Map(MapSet(content.map, root,
                              Map(MapSet(rv.map, data_group,
                                  Map(MapSet(gv.map, category, data)))))))

\* Line 141: {parser.data_structure: {data_group: {category: data}}}; a dict is
\* unhashable and cannot be the key.
fresh(ds, data_group, category, data) ==
    IF ds.type # "str" THEN Failed
    ELSE Loaded(Map(MapSet(EmptyMap, ds.entry,
            Map(MapSet(EmptyMap, data_group, Map(MapSet(EmptyMap, category, data)))))))

Outcome(f, ret, err, wrote) == [file |-> f, ret |-> ret, err |-> err, wrote |-> wrote]

\* Lines 144-148: open(output_file, 'w') and json.dump(content, f, indent=2) or
\* yaml.dump(content, f, default_flow_style=False).  json.dump writes chunk by
\* chunk and raises TypeError at a DataFrame, leaving the text before it.
\* yaml.dump represents a DataFrame as a python/object node, or raises before it
\* writes anything, by the library's version.
dump(content, fmt) ==
    IF fmt = "json"
    THEN (IF HasFrame(content)
          THEN {Outcome(File(JsonFirstLine, "text", NoMapping), "raised", "TypeError", FALSE)}
          ELSE {Outcome(File(JsonFirstLine, "json", content), "returned", "", TRUE)})
    ELSE {Outcome(File(YamlFirstLine(content), "yaml", content), "returned", "", TRUE)} \cup
         (IF HasFrame(content)
          THEN {Outcome(Truncated, "raised", "RepresenterError", FALSE)}
          ELSE {})

\* Lines 122-130 without the CSV test of lines 129-130: a CSV file goes on to
\* yaml.safe_load.
FormatOfNoCsvTest(f) ==
    LET fmt == detect_file_format(f.first)
    IN  IF fmt = "csv" THEN "yaml" ELSE fmt

\* Lines 122-130: what the existing file is found to be.
FormatOf(f) == detect_file_format(f.first)

\* Lines 119-148, the whole call on the file f: the set of its possible outcomes.
update_output_file(f, data, ds, data_group, category) ==
    IF f.exists
    THEN LET output_format == FormatOf(f)
         IN  IF output_format \in DetectErrors
             THEN {Outcome(f, "returned", output_format, FALSE)}
             ELSE IF output_format = "csv"
             THEN {Outcome(f, "raised", "UnsupportedIncrementalUpdate", FALSE)}
             ELSE LET l == load(f, output_format)
                      m == IF l.ok THEN merge(l.content, ds, data_group, category, data)
                           ELSE Failed
                  IN  IF ~m.ok THEN {Outcome(f, "raised", "DocumentParseError", FALSE)}
                      ELSE dump(m.content, output_format)
    ELSE LET c == fresh(ds, data_group, category, data)
         IN  IF ~c.ok THEN {Outcome(f, "raised", "TypeError", FALSE)}
             ELSE dump(c.content, "json")

NoCall == [called |-> FALSE, data |-> "t1", data_group |-> "G1", category |-> "C1",
           before |-> Absent, ret |-> "none", err |-> "", wrote |-> FALSE]

\* The addresses merged since the start of a run whose target did not exist.
NoHistory(f) == [fresh |-> ~f.exists, merged |-> EmptyMap]
Record(h, data_group, category, data) ==
    IF h.fresh THEN [h EXCEPT !.merged = MapSet(@, <<data_group, category>>, data)] ELSE h

UpdateOutputFile ==
    \E data \in Data, data_group \in Groups, category \in Categories :
      \E r \in update_output_file(output_file, data, data_structure, data_group, category) :
        /\ output_file' = r.file
        /\ last' = [called |-> TRUE, data |-> data, data_group |-> data_group,
                    category |-> category, before |-> output_file,
                    ret |-> r.ret, err |-> r.err, wrote |-> r.wrote]
        /\ history' = Record(history, data_group, category, data)
        /\ UNCHANGED <<data_structure, detectVars, excelVars, proc>>


(***************************************************************************)
(* Two update_output_file calls at once on one path                        *)
(***************************************************************************)

Procs == {1, 2}

\* A call before its first step.
Start(data, data_group, category) ==
    [pc |-> "exists", data |-> data, data_group |-> data_group, category |-> category,
     branch |-> "none", fmt |-> "none", content |-> NoMapping,
     ret |-> "none", err |-> "", wrote |-> FALSE,
     seen |-> 0, dumped |-> FALSE, clobbered |-> FALSE]

Done(pr, ret, err, wrote) ==
    [pr EXCEPT !.pc = "done", !.ret = ret, !.err = err, !.wrote = wrote]

\* How many other calls had written the file when call p looked at it.
DumpedByOthers(p) == Cardinality({q \in Procs \ {p} : proc[q].dumped})

\* The files the two calls may find.
RaceFiles ==
    {Absent,
     File(JsonFirstLine, "json", Map(EmptyMap)),
     File(JsonFirstLine, "json",
          Map(MapSet(EmptyMap, RootName,
              Map(MapSet(EmptyMap, "G2", Map(MapSet(EmptyMap, "C2", "t2"))))))),
     File(<<"-", "-", "-">>, "yaml",
          Map(MapSet(EmptyMap, RootName,
              Map(MapSet(EmptyMap, "G2", Map(MapSet(EmptyMap, "C2", "t2"))))))),
     File(<<"a", ",", "b", "\n">>, "text", NoMapping),
     File(<<"?", "?", "?">>, "text", NoMapping)}

\* Line 122, and line 141 when no file is there.
RaceExists(p) ==
    /\ proc[p].pc = "exists"
    /\ IF output_file.exists
       THEN proc' = [proc EXCEPT ![p].pc = "detect", ![p].branch = "existing"]
       ELSE LET c == fresh(data_structure, proc[p].data_group, proc[p].category, proc[p].data)
            IN  IF ~c.ok
                THEN proc' = [proc EXCEPT ![p] = Done(@, "raised", "TypeError", FALSE)]
                ELSE proc' = [proc EXCEPT ![p].pc = "open", ![p].branch = "fresh",
                                          ![p].fmt = "json", ![p].content = c.content,
                                          ![p].seen = DumpedByOthers(p)]
    /\ UNCHANGED <<output_file, data_structure, last, history, detectVars, excelVars>>

\* Lines 123-130
RaceDetect(p) ==
    /\ proc[p].pc = "detect"
    /\ LET output_format == FormatOf(output_file)
       IN  IF output_format \in DetectErrors
           THEN proc' = [proc EXCEPT ![p] = Done(@, "returned", output_format, FALSE)]
           ELSE IF output_format = "csv"
           THEN proc' = [proc EXCEPT
                           ![p] = Done(@, "raised", "UnsupportedIncrementalUpdate", FALSE)]
           ELSE proc' = [proc EXCEPT ![p].pc = "read", ![p].fmt = output_format]
    /\ UNCHANGED <<output_file, data_structure, last, history, detectVars, excelVars>>

\* Lines 132-139
RaceRead(p) ==
    /\ proc[p].pc = "read"
    /\ LET l == load(output_file, proc[p].fmt)
           m == IF l.ok
                THEN merge(l.content, data_structure, proc[p].data_group,
                           proc[p].category, proc[p].data)
                ELSE Failed
       IN  IF ~m.ok
           THEN proc' = [proc EXCEPT ![p] = Done(@, "raised", "DocumentParseError", FALSE)]
           ELSE proc' = [proc EXCEPT ![p].pc = "open", ![p].content = m.content,
                                     ![p].seen = DumpedByOthers(p)]
    /\ UNCHANGED <<output_file, data_structure, last, history, detectVars, excelVars>>

\* Line 144: open(output_file, 'w') empties the file.
RaceOpen(p) ==
    /\ proc[p].pc = "open"
    /\ output_file' = Truncated
    /\ proc' = [proc EXCEPT ![p].pc = "dump", ![p].clobbered = FALSE]
    /\ UNCHANGED <<data_structure, last, history, detectVars, excelVars>>

\* Lines 145-148 and the close.  Each call writes from offset 0 of its own handle:
\* when another call wrote between this one's open and its write, the file holds
\* this call's text, followed by the rest of the other's when that one was longer.
RaceDump(p) ==
    /\ proc[p].pc = "dump"
    /\ \E r \in dump(proc[p].content, proc[p].fmt) :
         /\ output_file' \in {r.file} \cup
              (IF proc[p].clobbered THEN {File(r.file.first, "text", NoMapping)} ELSE {})
         /\ proc' = [q \in Procs |->
                       IF q = p
                       THEN [Done(proc[p], r.ret, r.err, r.wrote) EXCEPT !.dumped = TRUE]
                       ELSE IF proc[q].pc = "dump"
                       THEN [proc[q] EXCEPT !.clobbered = TRUE]
                       ELSE proc[q]]
    /\ UNCHANGED <<data_structure, last, history, detectVars, excelVars>>

(***************************************************************************)
(* Specifications                                                          *)
(***************************************************************************)

IdleDetect == text = <<>> /\ detected = "pending"
IdleExcel ==
    /\ df = [readable |-> TRUE, label0 |-> "str", rows |-> <<>>]
    /\ header_keyword = "H"
    /\ start_table = 0
    /\ end_table = None
    /\ self_df = NoFrame
    /\ load_result = Pending
IdleMerge ==
    /\ output_file = Absent
    /\ data_structure = DefaultStructure
    /\ last = NoCall
    /\ history = NoHistory(Absent)
IdleProc == proc = <<>>

\* update_output_file called again and again by one process at a time, on any
\* file the path may hold and any data_structure configure may have set.
Init ==
    /\ output_file \in {Absent} \cup ExistingFiles
    /\ data_structure \in Structures
    /\ last = NoCall
    /\ history = NoHistory(output_file)
    /\ IdleDetect /\ IdleExcel /\ IdleProc

Next == UpdateOutputFile

Spec == Init /\ [][Next]_vars

\* detect_file_format on every text of at most MaxLen characters.
InitDetect ==
    /\ text \in Texts
    /\ detected = "pending"
    /\ IdleExcel /\ IdleMerge /\ IdleProc

NextDetect == DetectCall

SpecDetect == InitDetect /\ [][NextDetect]_vars

\* _load_excel on every sheet of at most MaxRows rows, after __init__ and
\* configure (header_keyword, start_table, end_table).
InitExcel ==
    /\ df \in Sheets
    /\ header_keyword = "H"
    /\ start_table \in StartValues
    /\ end_table \in EndValues
    /\ self_df = NoFrame
    /\ load_result = Pending
    /\ IdleDetect /\ IdleMerge /\ IdleProc

NextExcel == LoadExcel

SpecExcel == InitExcel /\ [][NextExcel]_vars


\* Two calls, one merging t1 at (G1, C1), the other any table at any address.
InitRace ==
    /\ output_file \in RaceFiles
    /\ data_structure \in Structures
    /\ last = NoCall
    /\ history = NoHistory(output_file)
    /\ \E data \in Records, data_group \in Groups, category \in Categories :
         proc = [p \in Procs |-> IF p = 1 THEN Start("t1", "G1", "C1")
                                 ELSE Start(data, data_group, category)]
    /\ IdleDetect /\ IdleExcel

NextRace ==
    \E p \in Procs :
      \/ RaceExists(p)
      \/ RaceDetect(p)
      \/ RaceRead(p)
      \/ RaceOpen(p)
      \/ RaceDump(p)

SpecRace == InitRace /\ [][NextRace]_vars

(***************************************************************************)
(* detect_file_format: C7                                                  *)
(***************************************************************************)

\* The first line as written in the file: without its line terminator.
RawFirstLine(t) ==
    LET l == readline(t)
    IN  IF l # <<>> /\ l[Len(l)] = "\n" THEN SubSeq(l, 1, Len(l) - 1) ELSE l

\* Whether the line starts with 'sep=' in any letter case.
StartsWithSep(l) ==
    /\ Len(l) >= 4
    /\ l[1] \in {"s", "S"} /\ l[2] \in {"e", "E"} /\ l[3] \in {"p", "P"} /\ l[4] = "="

\* json, yaml, csv, or a failure of either kind.
ResultClass(r) == IF r \in Formats THEN r ELSE "failure"

\* What the claim's sentence gives for a line, its tests taken in its order.
ClaimedFormat(l) ==
    CASE l = <<>> -> "failure"
      [] l # <<>> /\ l[1] = "{" -> "json"
      [] l # <<>> /\ l[1] # "{" /\ Len(l) >= 3 /\ l[1] = "-" /\ l[2] = "-" /\ l[3] = "-" -> "yaml"
      [] OTHER -> IF (\E i \in 1..Len(l) : l[i] = ",") \/ StartsWithSep(l)
                  THEN "csv" ELSE "failure"

\* C7 as stated: detect_file_format decides by the claim's tests applied to the
\* first line of the file as it stands.
C7_ByFirstLineAsWritten ==
    detected # "pending" => ResultClass(detected) = ClaimedFormat(RawFirstLine(text))

\* C7 (amended): detect_file_format decides from the first line alone, with the
\* whitespace around it stripped: an empty stripped line fails EmptyOrCorruptFile,
\* one starting with '{' is json, else one starting with '---' is yaml, else one
\* holding a comma or starting with 'sep=' in any letter case is csv, and every
\* other line fails UnknownFormat.
C7_ByStrippedFirstLine ==
    detected # "pending" =>
      LET l == strip(readline(text))
          brace == l # <<>> /\ l[1] = "{"
          dashes == Len(l) >= 3 /\ l[1] = "-" /\ l[2] = "-" /\ l[3] = "-"
          csvish == (\E i \in 1..Len(l) : l[i] = ",") \/ StartsWithSep(l)
      IN  /\ detected \in Formats \cup DetectErrors
          /\ (l = <<>>) <=> (detected = "EmptyOrCorruptFile")
          /\ brace <=> (detected = "json")
          /\ (~brace /\ dashes) <=> (detected = "yaml")
          /\ (~brace /\ ~dashes /\ csvish) <=> (detected = "csv")
          /\ (l # <<>> /\ ~brace /\ ~dashes /\ ~csvish) <=> (detected = "UnknownFormat")

\* A first line that starts with '---' and holds a comma was found to be yaml.
C7_Witness ==
    /\ detected = "yaml"
    /\ \E i \in 1..Len(text) : text[i] = ","

(***************************************************************************)
(* _load_excel: C5, C6                                                     *)
(***************************************************************************)

\* The 1-based positions of the marker rows of the sheet.
MarkerRows == {i \in 1..Len(df.rows) : df.rows[i][1] = header_keyword}

\* The k-th marker row, and the row that ends its segment.
KthMarker(k) == CHOOSE i \in MarkerRows : Cardinality({j \in MarkerRows : j < i}) = k - 1
SegmentEnd(k) ==
    IF k < Cardinality(MarkerRows) THEN KthMarker(k + 1) ELSE Len(df.rows) + 1

RECURSIVE SumLen(_)
SumLen(ts) == IF ts = <<>> THEN 0 ELSE Len(Head(ts)) + SumLen(Tail(ts))

C6_NoMarkersFails ==
    (load_result # Pending /\ df.readable /\ MarkerRows = {}) =>
      /\ load_result.ret = "raised"
      /\ load_result.err = "NoMarkersFound"
      /\ load_result.df = NoFrame
      /\ self_df = NoFrame

\* _load_excel raised NoMarkersFound on a sheet with rows, one of them holding the
\* keyword in another column.
C6_Witness ==
    /\ load_result.ret = "raised"
    /\ load_result.err = "NoMarkersFound"
    /\ \E i \in 1..Len(df.rows) : df.rows[i][2] = header_keyword


(***************************************************************************)
(* update_output_file, one call at a time: C1, C2, C3, C4, C8, C10         *)
(***************************************************************************)

\* What detect_file_format gives for a file.
Detected(f) == detect_file_format(f.first)

\* The table a document holds under root at (data_group, category), or "absent".
Leaf(doc, root, g, c) ==
    IF /\ doc.kind = "map"
       /\ root \in DOMAIN doc.map
       /\ doc.map[root].kind = "map"
       /\ g \in DOMAIN doc.map[root].map
       /\ doc.map[root].map[g].kind = "map"
       /\ c \in DOMAIN doc.map[root].map[g].map
    THEN doc.map[root].map[g].map[c]
    ELSE "absent"

\* The value a mapping holds at a key, or "absent".
ValueAt(m, k) == IF k \in DOMAIN m THEN m[k] ELSE [kind |-> "absent", map |-> EmptyMap]

\* The latest call found a file it took for JSON or YAML, wrote and returned.
MergedIntoExisting ==
    /\ last.called
    /\ last.before.exists
    /\ Detected(last.before) \in {"json", "yaml"}
    /\ last.ret = "returned"
    /\ last.wrote

\* C1: after a merge into an existing JSON or YAML document, every other top-level
\* key, every other group under the root key and every other category of the
\* addressed group has the value it had before, and the addressed leaf holds the
\* new table.
C1_MergeKeepsSiblings ==
    MergedIntoExisting =>
      LET b == last.before.doc
          a == output_file.doc
          root == data_structure.entry
          g == last.data_group
          c == last.category
      IN  /\ a.kind = "map" /\ b.kind = "map"
          /\ DOMAIN a.map = (DOMAIN b.map) \cup {root}
          /\ \A k \in (DOMAIN a.map) \ {root} : a.map[k] = b.map[k]
          /\ a.map[root].kind = "map"
          /\ DOMAIN a.map[root].map = (DOMAIN ValueAt(b.map, root).map) \cup {g}
          /\ \A h \in (DOMAIN a.map[root].map) \ {g} : a.map[root].map[h] = b.map[root].map[h]
          /\ a.map[root].map[g].kind = "map"
          /\ DOMAIN a.map[root].map[g].map =
                (DOMAIN ValueAt(ValueAt(b.map, root).map, g).map) \cup {c}
          /\ \A x \in (DOMAIN a.map[root].map[g].map) \ {c} :
                a.map[root].map[g].map[x] = b.map[root].map[g].map[x]
          /\ a.map[root].map[g].map[c] = last.data

\* A merge that overwrote a leaf of a document holding another category of the
\* same group, another group and another top-level key.
C1_Witness ==
    /\ MergedIntoExisting
    /\ OtherKey \in DOMAIN last.before.doc.map
    /\ \E h \in Groups \ {last.data_group}, x \in Categories \ {last.category} :
         /\ Leaf(last.before.doc, RootName, h, x) \in Records
         /\ Leaf(last.before.doc, RootName, last.data_group, x) \in Records
    /\ Leaf(last.before.doc, RootName, last.data_group, last.category) \in Records \ {last.data}

\* C2 as stated: with the data_structure the program sets up and no file at the
\* path, the call writes a JSON document holding exactly one key at each level
\* and the table under it.
C2_FreshDocumentWritten ==
    (last.called /\ ~last.before.exists /\ data_structure = DefaultStructure
        /\ last.data \in Records) =>
      /\ last.ret = "returned"
      /\ output_file.exists
      /\ output_file.enc = "json"
      /\ output_file.doc.kind = "map"
      /\ \E root \in DOMAIN output_file.doc.map :
           /\ DOMAIN output_file.doc.map = {root}
           /\ output_file.doc.map[root].kind = "map"
           /\ DOMAIN output_file.doc.map[root].map = {last.data_group}
           /\ DOMAIN output_file.doc.map[root].map[last.data_group].map = {last.category}
           /\ Leaf(output_file.doc, root, last.data_group, last.category) = last.data

\* C3 as stated: in a run of calls that starts with no file at the path, every
\* call returns after writing, and the document holds one root key under which
\* every address merged so far maps to the table merged there last.
C3_EveryMergeSucceeds ==
    (history.fresh /\ last.called
        /\ \A ad \in DOMAIN history.merged : history.merged[ad] \in Records) =>
      /\ last.ret = "returned"
      /\ last.wrote
      /\ output_file.doc.kind = "map"
      /\ \E root \in DOMAIN output_file.doc.map :
           /\ DOMAIN output_file.doc.map = {root}
           /\ \A ad \in DOMAIN history.merged :
                Leaf(output_file.doc, root, ad[1], ad[2]) = history.merged[ad]

\* C4: a call that finds a file it detects as CSV raises
\* UnsupportedIncrementalUpdate and leaves the file as it was.
C4_CsvRefusedUntouched ==
    (last.called /\ last.before.exists /\ Detected(last.before) = "csv") =>
      /\ last.ret = "raised"
      /\ last.err = "UnsupportedIncrementalUpdate"
      /\ ~last.wrote
      /\ output_file = last.before

\* A call refused a file whose first line holds a comma though its text is YAML.
C4_Witness ==
    /\ last.called
    /\ last.before.exists
    /\ Detected(last.before) = "csv"
    /\ last.before.enc = "yaml"
    /\ last.ret = "raised"

\* C8 as stated: a call that returns normally has written the file, which holds
\* the new table at the address; a file whose format cannot be detected makes
\* the call fail.
C8_NormalReturnMeansWritten ==
    (last.called /\ last.ret = "returned" /\ last.data \in Records) =>
      /\ last.wrote
      /\ \E root \in TopKeys :
           Leaf(output_file.doc, root, last.data_group, last.category) = last.data
      /\ ~(last.before.exists /\ Detected(last.before) \in DetectErrors)

\* C10 as stated: after a call rewrote a document it detected as JSON or YAML,
\* detect_file_format on the rewritten file gives that same format.
C10_RewrittenFileRedetected ==
    (MergedIntoExisting /\ last.data \in Records) =>
      Detected(output_file) = Detected(last.before)


(***************************************************************************)
(* Two calls at once: C9                                                   *)
(***************************************************************************)

\* Both calls wrote and returned normally, at different addresses.
BothWrote(p, q) ==
    /\ p # q
    /\ proc[p].pc = "done" /\ proc[q].pc = "done"
    /\ proc[p].ret = "returned" /\ proc[q].ret = "returned"
    /\ proc[p].wrote /\ proc[q].wrote
    /\ <<proc[p].data_group, proc[p].category>> # <<proc[q].data_group, proc[q].category>>

\* The final document does not hold the table call q merged.
Lost(q) ==
    Leaf(output_file.doc, data_structure.entry, proc[q].data_group, proc[q].category)
        # proc[q].data

\* C9: when both calls returned normally at different addresses and the final
\* document lacks the table of one of them, the other call read the file before
\* that one had written it: an update is lost by the interleaving of the separate
\* read and write steps, and by nothing else.
C9_LossOnlyByInterleaving ==
    \A p \in Procs, q \in Procs :
      (BothWrote(p, q) /\ Lost(q)) => proc[p].seen = 0

\* Both calls found the same existing file, both returned normally, and the final
\* document, well formed, holds one call's table and not the other's.
C9_Witness ==
    \E p \in Procs, q \in Procs :
      /\ BothWrote(p, q)
      /\ proc[p].branch = "existing" /\ proc[q].branch = "existing"
      /\ output_file.enc \in {"json", "yaml"}
      /\ ~Lost(p)
      /\ Leaf(output_file.doc, data_structure.entry, proc[q].data_group, proc[q].category)
            = "absent"


====
